---- MODULE Spec2Model ----
(***************************************************************************)
(* One invocation of the golulo command line client: configuration,       *)
(* keypair loading, the lending-API request and the sign-and-submit pass   *)
(* over the base64 transaction envelopes.                                  *)
(*                                                                         *)
(* Every interaction with the outside world (file read, HTTP request to    *)
(* the lending API, RPC to the ledger node, local signing) is appended to  *)
(* the log `calls` in the order the code performs it.                      *)
(***************************************************************************)
EXTENDS Integers, Sequences, FiniteSets, TLC

\* ---------------------------------------------------------------- bounds
\* Largest number of envelopes the lending API lists in one response.
MaxTxs == 3

\* ------------------------------------------------------------- vocabulary
Commands == {"pubkey", "account", "deposit", "withdraw"}

\* Besides the four commands, the client package is entered by a direct
\* call of CreateSignAndSendTransaction on a client built by NewSolanaClient
\* (a library capability no command uses).
LibraryCall == "CreateSignAndSendTransaction"

Entries == Commands \cup {LibraryCall}

\* Instruction lists handed to CreateSignAndSendTransaction: none, one the
\* payer alone signs, one that names a second signer.
InstructionLists == {<<>>, <<"ixA">>, <<"ixB">>}

\* What the file named by the `keypair` setting holds.
\*   missing : os.ReadFile fails
\*   notjson : not a JSON array of bytes
\*   badkey  : a JSON byte array that is not a 64-byte ed25519 secret key
\*   valid   : a well-formed secret key
KeyFiles == {"missing", "notjson", "badkey", "valid"}

\* --amount as given on the command line ("unset": flag absent).
AmountArgs == {"unset", "0", "0.4", "5"}

\* http.StatusOK
StatusOK == 200

\* Status codes the simulated lending API answers with.
StatusCodes == {200, 201, 500}

NoErr == "nil"
NotReturned == "running"

\* Public keys: the one derived from the loaded secret key, a co-signer the
\* lending protocol names, and whatever a malformed secret key derives to.
WalletKey == "wallet"
OtherKey == "other"
GarbageKey == "garbage"

NoSig == ""

\* rpc.CommitmentFinalized
CommitmentFinalized == "finalized"

NoClient == [ok |-> FALSE, PublicKey |-> "", PrivateKey |-> ""]

NoResp == [received |-> FALSE, transportOk |-> FALSE, status |-> 0, bodyOk |-> FALSE]

NoTx == [sigs |-> <<>>, header |-> 0, keys |-> <<>>, blockhash |-> "", instr |-> ""]

\* ------------------------------------------------ envelope wire encoding
\* base64 strings the lending API may hand out, with the bytes each one
\* decodes to.  The bytes mirror the wire layout of a transaction: the
\* signature array, then the message (header.NumRequiredSignatures, the
\* account keys, the recent blockhash, the instructions).  A string outside
\* the table is not valid base64.
B64Table ==
  [ W    |-> [sigs |-> <<NoSig>>, header |-> 1, keys |-> <<WalletKey, "prog">>,
              blockhash |-> "stale", instr |-> "ixA"],
    WO   |-> [sigs |-> <<NoSig, NoSig>>, header |-> 2,
              keys |-> <<WalletKey, OtherKey, "prog">>,
              blockhash |-> "stale", instr |-> "ixB"],
    OW   |-> [sigs |-> <<OtherKey, NoSig>>, header |-> 2,
              keys |-> <<OtherKey, WalletKey, "prog">>,
              blockhash |-> "stale", instr |-> "ixC"],
    QUJD |-> [sigs |-> <<NoSig>>, header |-> 2, keys |-> <<"prog">>,
              blockhash |-> "stale", instr |-> ""] ]

\* Envelope strings of the simulated API; "!!" is not base64.
Envelopes == {"W", "WO", "OW", "QUJD", "!!"}

\* base64.StdEncoding.DecodeString
DecodeString(s) ==
  IF s \in DOMAIN B64Table
    THEN [ok |-> TRUE, bytes |-> B64Table[s]]
    ELSE [ok |-> FALSE, bytes |-> NoTx]

\* solana.TransactionFromDecoder: the signature array must have one slot per
\* required signer and every required signer must be among the account keys.
TransactionFromDecoder(bytes) ==
  IF bytes.header >= 1 /\ bytes.header <= Len(bytes.keys)
       /\ Len(bytes.sigs) = bytes.header
    THEN [ok |-> TRUE, tx |-> bytes]
    ELSE [ok |-> FALSE, tx |-> NoTx]

\* All sequences over S of length 0..n.
SeqUpTo(S, n) == UNION {[1..k -> S] : k \in 0..n}

VARIABLES
  command,      \* the subcommand being executed
  cfgFile,      \* --config flag (root.go cfgFile)
  viper,        \* merged configuration: keypair, rpc-url, lulo-api-key
  keyFile,      \* content of the keypair file
  amount,       \* --amount as typed
  withdrawAll,  \* --all
  mintSet,      \* --mint given
  pc,           \* position of the invocation
  client,       \* *SolanaClient built by NewSolanaClient
  request,      \* body of the POST sent to the lending API
  resp,         \* status and body kind of the lending API's answer
  response,     \* decoded lending-API response (transactionMeta)
  b64_txs,      \* argument of HandleB64Transactions
  blockhash,    \* blockhash fetched for the batch
  idx,          \* loop index of HandleB64Transactions (next envelope)
  err,          \* error returned by the executed command
  exitCode,     \* process exit code, -1 while running
  stderr,       \* messages printed to the error stream by main/initConfig
  configRead,   \* path handed to viper.SetConfigFile
  calls         \* log of external interactions, in program order

vars == <<command, cfgFile, viper, keyFile, amount, withdrawAll, mintSet, pc,
          client, request, resp, response, b64_txs, blockhash, idx, err, exitCode,
          stderr, configRead, calls>>

inputs == <<command, cfgFile, viper, keyFile, amount, withdrawAll, mintSet>>

\* One entry of the log: the operation, whether it succeeded, the envelope
\* index and transaction it concerns, and the RPC options it was made with.
Call(op, ok, i, tx, skip, commitment) ==
  [op |-> op, ok |-> ok, idx |-> i, tx |-> tx, skipPreflight |-> skip,
   commitment |-> commitment]

Plain(op, ok) == Call(op, ok, 0, NoTx, FALSE, "")

\* amount float64 as parsed by the flag package (default 0), counted in
\* tenths so that a fractional amount can be told from zero.
AmountValue ==
  IF amount = "5" THEN 50 ELSE IF amount = "0.4" THEN 4 ELSE 0

\* fmt.Sprintf("%.0f", amount) for an amount in tenths: the nearest integer,
\* a tie going to the even one.
Sprintf0f(tenths) ==
  LET q == tenths \div 10
      r == tenths % 10
  IN IF r < 5 THEN q
     ELSE IF r > 5 THEN q + 1
     ELSE IF q % 2 = 0 THEN q ELSE q + 1

NoRequest == [sent |-> FALSE, Owner |-> "", Amount |-> 0, WithdrawAll |-> FALSE]

\* DepositRequest as marshalled into the POST body (no withdrawAll field).
DepositRequest(c, amt) ==
  [sent |-> TRUE, Owner |-> c.PublicKey, Amount |-> Sprintf0f(amt),
   WithdrawAll |-> FALSE]

\* WithdrawRequest as marshalled into the POST body.
WithdrawRequest(c, amt, all) ==
  [sent |-> TRUE, Owner |-> c.PublicKey, Amount |-> Sprintf0f(amt),
   WithdrawAll |-> all]

Init ==
  /\ command \in Entries
  /\ cfgFile \in {"", "other.yaml"}
  /\ viper \in [{"keypair", "rpc-url", "lulo-api-key"} -> {"", "set"}]
  /\ keyFile \in KeyFiles
  /\ amount \in AmountArgs
  /\ withdrawAll \in BOOLEAN
  /\ mintSet \in BOOLEAN
  /\ command \in {"pubkey", "account", LibraryCall} =>
        amount = "unset" /\ withdrawAll = FALSE /\ mintSet = FALSE
  /\ command = "deposit" => withdrawAll = FALSE
  /\ command = LibraryCall => cfgFile = ""
  /\ pc = IF command = LibraryCall THEN "RunE" ELSE "start"
  /\ client = NoClient
  /\ request = NoRequest
  /\ resp = NoResp
  /\ response = <<>>
  /\ b64_txs = <<>>
  /\ blockhash = ""
  /\ idx = 0
  /\ err = NotReturned
  /\ exitCode = -1
  /\ stderr = <<>>
  /\ configRead = ""
  /\ calls = <<>>

\* The command returns e to cobra, which hands it to main.
Return(e) ==
  /\ err' = e
  /\ pc' = "returned"


\* ------------------------------------------------------------ root.go
\* initConfig (cobra.OnInitialize): the working directory is looked up and
\* <wd>/config.yaml is set as the configuration file, whatever the --config
\* flag holds.
\* A failing os.Getwd prints the error and exits with code 1.
ConfigPath(flag) == "./config.yaml"

initConfig ==
  /\ pc = "start"
  /\ \E getwdOk \in BOOLEAN :
       IF ~getwdOk
         THEN /\ stderr' = Append(stderr, "getwd")
              /\ exitCode' = 1
              /\ pc' = "exited"
              /\ UNCHANGED <<configRead, calls>>
         ELSE /\ configRead' = ConfigPath(cfgFile)
              /\ calls' = Append(calls, Plain("ReadInConfig", TRUE))
              /\ pc' = IF command = "withdraw" THEN "PreRunE"
                                               ELSE "ValidateRequiredFlags"
              /\ UNCHANGED <<stderr, exitCode>>
  /\ UNCHANGED <<inputs, request, client, resp, response, b64_txs, blockhash, idx, err>>

\* ------------------------------------------------------------ withdraw.go
\* Variant of PreRunERejects that also refuses --all next to an amount.
PreRunERejects_conflict(all, amt) == (~all /\ amt = 0) \/ (all /\ amt # 0)

\* Variant of PreRunERejects that only looks at a negative amount.
PreRunERejects_negativeOnly(all, amt) == ~all /\ amt < 0

\* withdrawCmd.PreRunE: the predicate that rejects the invocation.
PreRunERejects(all, amt) == ~all /\ amt = 0

withdrawPreRunE ==
  /\ pc = "PreRunE"
  /\ command = "withdraw"
  /\ IF PreRunERejects(withdrawAll, AmountValue)
       THEN Return("either --amount or --all flag must be specified")
       ELSE /\ pc' = "ValidateRequiredFlags"
            /\ err' = err
  /\ UNCHANGED <<inputs, request, client, resp, response, b64_txs, blockhash, idx, exitCode,
                 stderr, configRead, calls>>

\* Flags marked required: deposit needs --amount and --mint, withdraw --mint.
RequiredFlagsMissing ==
  \/ command = "deposit" /\ (amount = "unset" \/ ~mintSet)
  \/ command = "withdraw" /\ ~mintSet

\* cobra validates the required flags after PreRunE and before RunE.
ValidateRequiredFlags ==
  /\ pc = "ValidateRequiredFlags"
  /\ IF RequiredFlagsMissing
       THEN Return("required flag(s) not set")
       ELSE /\ pc' = "RunE"
            /\ err' = err
  /\ UNCHANGED <<inputs, request, client, resp, response, b64_txs, blockhash, idx, exitCode,
                 stderr, configRead, calls>>

\* ------------------------------------------------------------ client.go
\* NewSolanaClient, as a function of the configuration and the key file.
\* `panics` is the outcome of privateKey.PublicKey() on a byte array that is
\* not a secret key: the conversion solana.PrivateKey(secretKey) validates
\* nothing, so the derivation either panics or yields a meaningless key.
\* The result names the error returned ("nil" for none), the client, whether
\* the process panicked, and the external calls made on the way.
\* Variant of KeypairUnset that tests the wrong setting.
KeypairUnset_rpcUrl(v) == v["rpc-url"] = ""

KeypairUnset(v) == v["keypair"] = ""

NewSolanaClientResult(v, file, panics) ==
  IF KeypairUnset(v)
    THEN [err |-> "keypair path not set in config", client |-> NoClient,
          panic |-> FALSE, calls |-> <<>>]
  ELSE IF file = "missing"
    THEN [err |-> "failed to read keypair file", client |-> NoClient,
          panic |-> FALSE, calls |-> <<Plain("ReadFile", FALSE)>>]
  ELSE IF file = "notjson"
    THEN [err |-> "failed to parse keypair file", client |-> NoClient,
          panic |-> FALSE, calls |-> <<Plain("ReadFile", TRUE)>>]
  ELSE IF file = "badkey" /\ panics
    THEN [err |-> NotReturned, client |-> NoClient,
          panic |-> TRUE, calls |-> <<Plain("ReadFile", TRUE)>>]
  ELSE IF v["rpc-url"] = ""
    THEN [err |-> "RPC URL not set in config", client |-> NoClient,
          panic |-> FALSE, calls |-> <<Plain("ReadFile", TRUE)>>]
  ELSE LET pub == IF file = "valid" THEN WalletKey ELSE GarbageKey
       IN [err |-> NoErr,
           client |-> [ok |-> TRUE, PublicKey |-> pub, PrivateKey |-> pub],
           panic |-> FALSE,
           calls |-> <<Plain("ReadFile", TRUE), Plain("rpc.New", TRUE)>>]

\* First statement of every RunE: build the client or fail.  The error is
\* wrapped ("failed to create client: %w"); the cause is what is recorded.
NewSolanaClient ==
  /\ pc = "RunE"
  /\ \E panics \in BOOLEAN :
       LET r == NewSolanaClientResult(viper, keyFile, panics) IN
         /\ calls' = calls \o r.calls
         /\ client' = r.client
         /\ IF r.panic
              THEN /\ pc' = "exited"
                   /\ exitCode' = 2
                   /\ stderr' = Append(stderr, "panic")
                   /\ err' = err
              ELSE IF r.err # NoErr
                THEN /\ Return(r.err)
                     /\ UNCHANGED <<exitCode, stderr>>
                ELSE /\ pc' = "request"
                     /\ UNCHANGED <<err, exitCode, stderr>>
  /\ UNCHANGED <<inputs, request, resp, response, b64_txs, blockhash, idx, configRead>>


\* Variant of Getter that hands the private key out for every signer.
Getter_anyKey(c, key) == c.PrivateKey

\* The getter SignTransaction hands to tx.Sign: the private key for the
\* client's own public key, nil ("") for every other key.
Getter(c, key) == IF key = c.PublicKey THEN c.PrivateKey ELSE ""

\* tx.Sign of the SDK, called with the getter above.  For each required
\* signer, in order, the getter is asked for a key; a slot is signed with the
\* key the getter returns.  On a signer the getter declines, the SDK either
\* gives up with an error (`stops`) or moves on to the next signer; both are
\* admitted.  A slot the getter declines is never written.
LibSign(c, tx, stops) ==
  LET declined(j) == Getter(c, tx.keys[j]) = ""
      reached(j) == stops => \A k \in 1..(j - 1) : ~declined(k)
      signs(j) == j <= tx.header /\ ~declined(j) /\ reached(j)
  IN [tx  |-> [tx EXCEPT !.sigs =
                 [j \in 1..Len(tx.sigs) |->
                    IF signs(j) THEN Getter(c, tx.keys[j]) ELSE tx.sigs[j]]],
      err |-> IF stops /\ \E j \in 1..tx.header : declined(j)
                THEN "signer key not found" ELSE NoErr]

\* SignTransaction: the result of tx.Sign is discarded and nil is returned.
SignTransaction(c, tx, stops) ==
  [tx |-> LibSign(c, tx, stops).tx, err |-> NoErr]

\* Variant of SendOpts with preflight skipped.
SendOpts_skipPreflight ==
  [SkipPreflight |-> TRUE, PreflightCommitment |-> CommitmentFinalized]

\* rpc.TransactionOpts of SendTransaction.
SendOpts == [SkipPreflight |-> FALSE, PreflightCommitment |-> CommitmentFinalized]

\* Commitment asked of GetLatestBlockhash.
BlockhashCommitment == CommitmentFinalized

\* Variant of SendErr that drops the RPC error.
SendErr_swallowed(sendOk) == NoErr

\* SendTransaction: the error returned for the outcome of the RPC.
SendErr(sendOk) == IF sendOk THEN NoErr ELSE "failed to send transaction"

\* solana.NewTransaction with the client's key as fee payer: the payer is the
\* first account key and first required signer; an empty instruction list
\* is refused.
NewTransaction(instructions, recent, payer) ==
  IF instructions = <<>>
    THEN [ok |-> FALSE, tx |-> NoTx]
    ELSE LET extra == IF instructions[1] = "ixB" THEN <<OtherKey>> ELSE <<>>
             signers == <<payer>> \o extra
         IN [ok |-> TRUE,
             tx |-> [sigs |-> [j \in 1..Len(signers) |-> NoSig],
                     header |-> Len(signers),
                     keys |-> signers \o <<"prog">>,
                     blockhash |-> recent,
                     instr |-> instructions[1]]]

\* Variant of CreateTransaction that asks for the blockhash a second time
\* when the first request fails.
CreateTransaction_retriesFetch(c, instructions, rpcOk) ==
  LET fetch == Call("GetLatestBlockhash", rpcOk, 0, NoTx, FALSE, BlockhashCommitment)
      again == Call("GetLatestBlockhash", TRUE, 0, NoTx, FALSE, BlockhashCommitment)
      built == NewTransaction(instructions, "fresh", c.PublicKey)
      make == Call("NewTransaction", built.ok, 0, built.tx, FALSE, "")
      log == IF rpcOk THEN <<fetch, make>> ELSE <<fetch, again, make>>
  IN IF ~built.ok
       THEN [err |-> "failed to create transaction", tx |-> NoTx, calls |-> log]
       ELSE [err |-> NoErr, tx |-> built.tx, calls |-> log]

\* Variant of CreateTransaction that hands on whatever NewTransaction
\* produced without looking at its error.
CreateTransaction_skipsBuildError(c, instructions, rpcOk) ==
  LET fetch == Call("GetLatestBlockhash", rpcOk, 0, NoTx, FALSE, BlockhashCommitment)
      built == NewTransaction(instructions, "fresh", c.PublicKey)
      make == Call("NewTransaction", built.ok, 0, built.tx, FALSE, "")
  IN IF ~rpcOk
       THEN [err |-> "failed to get recent blockhash", tx |-> NoTx, calls |-> <<fetch>>]
       ELSE [err |-> NoErr, tx |-> built.tx, calls |-> <<fetch, make>>]

\* CreateTransaction: fetch a blockhash, then build the transaction with the
\* client's public key as payer.  The construction is logged as well.
CreateTransaction(c, instructions, rpcOk) ==
  LET fetch == Call("GetLatestBlockhash", rpcOk, 0, NoTx, FALSE, BlockhashCommitment)
      built == NewTransaction(instructions, "fresh", c.PublicKey)
      make == Call("NewTransaction", built.ok, 0, built.tx, FALSE, "")
  IN IF ~rpcOk
       THEN [err |-> "failed to get recent blockhash", tx |-> NoTx, calls |-> <<fetch>>]
     ELSE IF ~built.ok
       THEN [err |-> "failed to create transaction", tx |-> NoTx,
             calls |-> <<fetch, make>>]
     ELSE [err |-> NoErr, tx |-> built.tx, calls |-> <<fetch, make>>]

\* CreateSignAndSendTransaction: create, sign, send; the first error returns.
CreateSignAndSendTransaction ==
  /\ pc = "request"
  /\ command = LibraryCall
  /\ \E instructions \in InstructionLists, rpcOk \in BOOLEAN,
        stops \in BOOLEAN, sendOk \in BOOLEAN :
       LET created == CreateTransaction(client, instructions, rpcOk)
           signed == SignTransaction(client, created.tx, stops)
           signCall == Call("Sign", signed.err = NoErr, 1, signed.tx, FALSE, "")
           sendCall == Call("SendTransaction", sendOk, 1, signed.tx,
                            SendOpts.SkipPreflight, SendOpts.PreflightCommitment)
       IN IF created.err # NoErr
            THEN /\ Return(created.err)
                 /\ calls' = calls \o created.calls
          ELSE IF signed.err # NoErr
            THEN /\ Return(signed.err)
                 /\ calls' = calls \o created.calls \o <<signCall>>
          ELSE /\ Return(SendErr(sendOk))
               /\ calls' = calls \o created.calls \o <<signCall, sendCall>>
  /\ UNCHANGED <<inputs, request, client, resp, response, b64_txs, blockhash, idx, exitCode,
                 stderr, configRead>>

\* Variant of PatchBlockhash that also starts over with empty signature
\* slots.
PatchBlockhash_dropsSigs(tx, recent) ==
  [tx EXCEPT !.blockhash = recent,
             !.sigs = [j \in 1..Len(tx.sigs) |-> NoSig]]

\* tx.Message.RecentBlockhash = blockhash.Value.Blockhash
PatchBlockhash(tx, recent) == [tx EXCEPT !.blockhash = recent]

\* Variant of GetLatestBlockhash that decodes every envelope before the
\* loop and gives up if one of them is malformed.
GetLatestBlockhash_validatesFirst ==
  /\ pc = "HandleB64Transactions"
  /\ \E rpcOk \in BOOLEAN :
       /\ calls' = Append(calls, Call("GetLatestBlockhash", rpcOk, 0, NoTx,
                                      FALSE, BlockhashCommitment))
       /\ IF ~rpcOk
            THEN /\ Return("failed to get latest blockhash")
                 /\ UNCHANGED <<blockhash, idx>>
          ELSE IF \E i \in 1..Len(b64_txs) : ~DecodeString(b64_txs[i]).ok
            THEN /\ Return("failed to decode transaction")
                 /\ blockhash' = "fresh"
                 /\ idx' = CHOOSE i \in 1..Len(b64_txs) : ~DecodeString(b64_txs[i]).ok
            ELSE /\ blockhash' = "fresh"
                 /\ idx' = 1
                 /\ pc' = "loop"
                 /\ err' = err
  /\ UNCHANGED <<inputs, request, client, resp, response, b64_txs, exitCode, stderr, configRead>>

\* HandleB64Transactions, first statement: one blockhash for the batch.
GetLatestBlockhash ==
  /\ pc = "HandleB64Transactions"
  /\ \E rpcOk \in BOOLEAN :
       /\ calls' = Append(calls, Call("GetLatestBlockhash", rpcOk, 0, NoTx,
                                      FALSE, BlockhashCommitment))
       /\ IF rpcOk
            THEN /\ blockhash' = "fresh"
                 /\ idx' = 1
                 /\ pc' = "loop"
                 /\ err' = err
            ELSE /\ Return("failed to get latest blockhash")
                 /\ UNCHANGED <<blockhash, idx>>
  /\ UNCHANGED <<inputs, request, client, resp, response, b64_txs, exitCode, stderr, configRead>>

\* One pass of the loop body of HandleB64Transactions over b64_txs[idx]:
\* decode, deserialize, overwrite the blockhash, sign, submit.
HandleB64Iteration ==
  /\ pc = "loop"
  /\ idx <= Len(b64_txs)
  /\ LET dec == DecodeString(b64_txs[idx])
         des == TransactionFromDecoder(dec.bytes)
     IN IF ~dec.ok
          THEN /\ Return("failed to decode transaction")
               /\ UNCHANGED <<idx, calls>>
        ELSE IF ~des.ok
          THEN /\ Return("failed to deserialize transaction")
               /\ UNCHANGED <<idx, calls>>
        ELSE \E stops \in BOOLEAN, sendOk \in BOOLEAN :
          LET patched == PatchBlockhash(des.tx, blockhash)
              signed == SignTransaction(client, patched, stops)
              log == <<Call("Sign", signed.err = NoErr, idx, signed.tx, FALSE, ""),
                       Call("SendTransaction", sendOk, idx, signed.tx,
                            SendOpts.SkipPreflight, SendOpts.PreflightCommitment)>>
          IN IF signed.err # NoErr
               THEN /\ Return("failed to sign transaction")
                    /\ calls' = Append(calls, log[1])
                    /\ idx' = idx
             ELSE IF SendErr(sendOk) # NoErr
               THEN /\ Return(SendErr(sendOk))
                    /\ calls' = calls \o log
                    /\ idx' = idx
             ELSE /\ calls' = calls \o log
                  /\ idx' = idx + 1
                  /\ UNCHANGED <<pc, err>>
  /\ UNCHANGED <<inputs, request, client, resp, response, b64_txs, blockhash, exitCode, stderr,
                 configRead>>

\* The range loop is exhausted: HandleB64Transactions returns nil.
HandleB64Done ==
  /\ pc = "loop"
  /\ idx > Len(b64_txs)
  /\ Return(NoErr)
  /\ UNCHANGED <<inputs, request, client, resp, response, b64_txs, blockhash, idx, exitCode,
                 stderr, configRead, calls>>


\* ------------------------------------------------- the lending API (HTTP)
\* What httpClient.Do and the body can turn out to be: a transport failure,
\* or a status code with a body that is malformed JSON or lists envelopes.
Metas == [transaction : Envelopes, protocol : {"lend"}]

ApiOutcomes ==
  {[transportOk |-> FALSE, status |-> 0, bodyOk |-> FALSE, metas |-> <<>>]}
  \cup {[transportOk |-> TRUE, status |-> st, bodyOk |-> FALSE, metas |-> <<>>] :
          st \in StatusCodes}
  \cup {[transportOk |-> TRUE, status |-> st, bodyOk |-> TRUE, metas |-> m] :
          st \in StatusCodes, m \in SeqUpTo(Metas, MaxTxs)}

\* Variant of StatusRejected that accepts the whole 2xx range.
StatusRejected_non2xx(status) == status \notin 200..299

\* Variant of StatusRejected that lets every status through.
StatusRejected_never(status) == FALSE

\* `if resp.StatusCode != http.StatusOK` of the three commands.
StatusRejected(status) == status # StatusOK

\* The error a RunE returns for an API outcome, "nil" when it goes on.
ResponseErr(o) ==
  IF ~o.transportOk THEN "failed to make request"
  ELSE IF StatusRejected(o.status) THEN "unexpected status code"
  ELSE IF ~o.bodyOk THEN "failed to decode response"
  ELSE NoErr

\* Variant of ExtractTransactions that reverses the list.
ExtractTransactions_reversed(metas) ==
  [i \in 1..Len(metas) |-> metas[Len(metas) + 1 - i].transaction]

\* b64_txs as built from response.Data.TransactionMeta (deposit.go 107-110,
\* withdraw.go 109-112): the transaction field of each record, in order.
ExtractTransactions(metas) == [i \in 1..Len(metas) |-> metas[i].transaction]

\* ------------------------------------------------------------ pubkey.go
pubkeyRunE ==
  /\ pc = "request"
  /\ command = "pubkey"
  /\ Return(NoErr)
  /\ UNCHANGED <<inputs, request, client, resp, response, b64_txs, blockhash, idx, exitCode,
                 stderr, configRead, calls>>

\* ------------------------------------------------------------ account.go
\* The only command that checks lulo-api-key before the request.
AccountKeyMissing(v) == v["lulo-api-key"] = ""

accountRunE ==
  /\ pc = "request"
  /\ command = "account"
  /\ IF AccountKeyMissing(viper)
       THEN /\ Return("FLEXLEND_API_KEY environment variable not set")
            /\ UNCHANGED <<calls, resp>>
       ELSE \E o \in {x \in ApiOutcomes : x.metas = <<>>} :
              /\ calls' = Append(calls, Plain("HttpDo", o.transportOk))
              /\ resp' = [received |-> TRUE, transportOk |-> o.transportOk,
                          status |-> o.status, bodyOk |-> o.bodyOk]
              /\ Return(ResponseErr(o))
  /\ UNCHANGED <<inputs, request, client, response, b64_txs, blockhash, idx, exitCode,
                 stderr, configRead>>

\* ------------------------------------------------- deposit.go, withdraw.go
\* RunE of deposit and withdraw after the client is built, up to the call of
\* HandleB64Transactions: one POST, the status check, the body, b64_txs.
\* lulo-api-key is used as the x-api-key header without being looked at.
RequestEnvelopes ==
  \E o \in ApiOutcomes :
    /\ calls' = Append(calls, Plain("HttpDo", o.transportOk))
    /\ resp' = [received |-> TRUE, transportOk |-> o.transportOk,
                status |-> o.status, bodyOk |-> o.bodyOk]
    /\ IF ResponseErr(o) # NoErr
         THEN /\ Return(ResponseErr(o))
              /\ UNCHANGED <<response, b64_txs>>
         ELSE /\ response' = o.metas
              /\ b64_txs' = ExtractTransactions(o.metas)
              /\ pc' = "HandleB64Transactions"
              /\ err' = err

depositRunE ==
  /\ pc = "request"
  /\ command = "deposit"
  /\ request' = DepositRequest(client, AmountValue)
  /\ RequestEnvelopes
  /\ UNCHANGED <<inputs, client, blockhash, idx, exitCode, stderr, configRead>>

withdrawRunE ==
  /\ pc = "request"
  /\ command = "withdraw"
  /\ request' = WithdrawRequest(client, AmountValue, withdrawAll)
  /\ RequestEnvelopes
  /\ UNCHANGED <<inputs, client, blockhash, idx, exitCode, stderr, configRead>>

\* ------------------------------------------------------------ main.go
\* Variant of ExitCodeFor that ignores the error.
ExitCodeFor_zero(e) == 0

\* Exit code main ends with for the error Execute returned.
ExitCodeFor(e) == IF e # NoErr THEN 1 ELSE 0

main ==
  /\ pc = "returned"
  /\ command \in Commands
  /\ stderr' = IF err # NoErr THEN Append(stderr, err) ELSE stderr
  /\ exitCode' = ExitCodeFor(err)
  /\ pc' = "exited"
  /\ UNCHANGED <<inputs, request, client, resp, response, b64_txs, blockhash, idx, err,
                 configRead, calls>>

Next ==
  \/ initConfig
  \/ withdrawPreRunE
  \/ ValidateRequiredFlags
  \/ NewSolanaClient
  \/ pubkeyRunE
  \/ accountRunE
  \/ depositRunE
  \/ withdrawRunE
  \/ GetLatestBlockhash
  \/ HandleB64Iteration
  \/ HandleB64Done
  \/ CreateSignAndSendTransaction
  \/ main

Spec == Init /\ [][Next]_vars


\* ================================================================ claims
CallIdx == 1..Len(calls)

OpsAt(op) == {k \in CallIdx : calls[k].op = op}

RpcOps == {"GetLatestBlockhash", "SendTransaction"}

Done == pc \in {"returned", "exited"}

BatchCommand == command \in {"deposit", "withdraw"}

\* Errors HandleB64Transactions returns, and nil.
HandlerResults ==
  {NoErr, "failed to get latest blockhash", "failed to decode transaction",
   "failed to deserialize transaction", "failed to sign transaction",
   "failed to send transaction"}

\* The batch handler has been entered and has made its first call.
HandlerRan == BatchCommand /\ (pc = "loop" \/ (Done /\ err \in HandlerResults))

\* C1: in a batch handed to HandleB64Transactions exactly one blockhash is
\* fetched and it precedes every submission; submissions follow the input
\* order, at most one per envelope; a failed submission of envelope i is the
\* last thing the handler does (nothing after i is signed or submitted), the
\* call returns an error, and the submissions of 1..i-1 stay in place.
C1_BatchOrderAndEarlyStop ==
  BatchCommand =>
    LET fetches == OpsAt("GetLatestBlockhash")
        sends == OpsAt("SendTransaction")
    IN /\ Cardinality(fetches) <= 1
       /\ HandlerRan => Cardinality(fetches) = 1
       /\ \A s \in sends : \E f \in fetches : f < s /\ calls[f].ok
       /\ \A s \in sends :
            /\ calls[s].idx \in 1..Len(b64_txs)
            /\ DecodeString(b64_txs[calls[s].idx]).ok
            /\ calls[s].tx.instr = B64Table[b64_txs[calls[s].idx]].instr
       /\ \A s1, s2 \in sends : s1 < s2 => calls[s1].idx < calls[s2].idx
       /\ \A s \in sends :
            ~calls[s].ok =>
              /\ s = Len(calls)
              /\ Done
              /\ err \notin {NoErr, NotReturned}
              /\ \A i \in 1..(calls[s].idx - 1) :
                   \E t \in sends : t < s /\ calls[t].idx = i /\ calls[t].ok

\* Witness for C1: the second of three envelopes failed after the first went
\* through, and the process has ended.
C1_Witness ==
  /\ BatchCommand /\ pc = "exited" /\ Len(b64_txs) = 3
  /\ \E s \in OpsAt("SendTransaction") : ~calls[s].ok /\ calls[s].idx = 2
  /\ \E t \in OpsAt("SendTransaction") : calls[t].ok /\ calls[t].idx = 1

\* C2 (as claimed): with an empty lulo-api-key, deposit, withdraw and account
\* make no HTTP request and no RPC call, and end with an error.
C2_EmptyApiKeyBlocksNetwork ==
  (command \in {"deposit", "withdraw", "account"} /\ viper["lulo-api-key"] = "") =>
    /\ \A k \in CallIdx : calls[k].op \notin (RpcOps \cup {"HttpDo"})
    /\ (pc = "returned" => err # NoErr)

\* C3: withdraw with neither --amount nor --all is rejected by the pre-run
\* validation; no keypair is read, no client built, no HTTP or RPC call made.
C3_WithdrawNeedsAmountOrAll ==
  (command = "withdraw" /\ amount = "unset" /\ ~withdrawAll) =>
    /\ \A k \in CallIdx :
         calls[k].op \notin (RpcOps \cup {"HttpDo", "ReadFile", "rpc.New", "Sign"})
    /\ ~client.ok
    /\ pc \in {"start", "PreRunE", "returned", "exited"}
    /\ (pc = "returned" =>
          err = "either --amount or --all flag must be specified")

C3_Witness ==
  /\ command = "withdraw" /\ amount = "unset" /\ ~withdrawAll
  /\ viper["keypair"] # "" /\ keyFile = "valid" /\ mintSet
  /\ pc = "exited"
  /\ err = "either --amount or --all flag must be specified"

\* C4: when the lending API answers deposit or withdraw with a non-2xx status
\* or with a body that is not valid JSON, the command returns an error and no
\* blockhash is fetched, nothing is signed and nothing is submitted.
C4_BadApiAnswerStopsBeforeRpc ==
  (BatchCommand /\ resp.received /\ resp.transportOk
     /\ (resp.status \notin 200..299 \/ ~resp.bodyOk)) =>
    /\ \A k \in CallIdx : calls[k].op \notin (RpcOps \cup {"Sign"})
    /\ Done
    /\ err \notin {NoErr, NotReturned}

\* Witness for C4: a 500 whose body would have parsed.
C4_Witness ==
  /\ command = "deposit" /\ resp.received /\ resp.status = 500 /\ resp.bodyOk
  /\ pc = "exited" /\ exitCode # 0


\* C5: with an empty keypair setting NewSolanaClient fails before any file is
\* read and before the RPC client is created; no entry point that builds the
\* client makes an HTTP or RPC call, and the error returned is the missing
\* setting (unless flag validation already rejected the invocation).
C5_NoKeypairNoAccess ==
  viper["keypair"] = "" =>
    /\ \A k \in CallIdx :
         calls[k].op \notin (RpcOps \cup {"HttpDo", "ReadFile", "rpc.New", "Sign"})
    /\ ~client.ok
    /\ pc \notin {"request", "HandleB64Transactions", "loop"}
    /\ (pc = "returned" =>
          err \in {"keypair path not set in config",
                   "either --amount or --all flag must be specified",
                   "required flag(s) not set"})

C5_Witness ==
  /\ viper["keypair"] = "" /\ viper["rpc-url"] # "" /\ viper["lulo-api-key"] # ""
  /\ command = "deposit"
  /\ pc = "exited"
  /\ err = "keypair path not set in config"

\* C6 (as claimed): a keypair file that is not a JSON byte array, or whose
\* byte array is not a valid secret key, makes NewSolanaClient return a parse
\* error and no client is built.
C6_BadKeyfileIsParseError ==
  (viper["keypair"] # "" /\ viper["rpc-url"] # ""
     /\ keyFile \in {"notjson", "badkey"}
     /\ \E k \in CallIdx : calls[k].op = "ReadFile") =>
    /\ err = "failed to parse keypair file"
    /\ ~client.ok

\* C7: once the executed command has returned, the process exits non-zero
\* with the error on the error stream if the command returned an error, and
\* exits with zero if it returned none.
C7_ExitCodeFollowsError ==
  (pc = "exited" /\ err # NotReturned) =>
    IF err # NoErr
      THEN exitCode # 0 /\ \E i \in 1..Len(stderr) : stderr[i] = err
      ELSE exitCode = 0

C7_Witness ==
  /\ pc = "exited" /\ command = "withdraw"
  /\ err = "failed to send transaction"
  /\ exitCode = 1

\* C8: deposit and withdraw make at most one HTTP call, it precedes every RPC
\* call, and the envelopes reach the batch handler (and the ledger node) in
\* the order and number the API response lists them; account and pubkey make
\* no RPC call.
C8_OneRequestThenRpcInOrder ==
  /\ command \in Commands => Cardinality(OpsAt("HttpDo")) <= 1
  /\ BatchCommand =>
       /\ \A k \in CallIdx :
            calls[k].op \in RpcOps => \E h \in OpsAt("HttpDo") : h < k
       /\ Len(b64_txs) = Len(response)
       /\ \A i \in 1..Len(response) : b64_txs[i] = response[i].transaction
       /\ \A s \in OpsAt("SendTransaction") :
            /\ calls[s].idx <= Len(response)
            /\ calls[s].tx.instr =
                 B64Table[response[calls[s].idx].transaction].instr
  /\ command \in {"account", "pubkey"} =>
       \A k \in CallIdx : calls[k].op \notin RpcOps

\* Witness for C8: three different envelopes, all three submitted.
C8_Witness ==
  /\ command = "withdraw" /\ pc = "exited" /\ err = NoErr
  /\ Len(response) = 3
  /\ response[1].transaction = "OW" /\ response[2].transaction = "W"
  /\ response[3].transaction = "WO"
  /\ Cardinality(OpsAt("SendTransaction")) = 3

\* Signature slots of the transaction of log entry k before it was signed.
OrigSigs(k) ==
  IF BatchCommand
    THEN B64Table[b64_txs[calls[k].idx]].sigs
    ELSE [j \in 1..Len(calls[k].tx.sigs) |-> NoSig]

C11_NoRetry ==
  LET fetches == OpsAt("GetLatestBlockhash")
      sends == OpsAt("SendTransaction")
  IN /\ Cardinality(fetches) <= 1
     /\ \A s1, s2 \in sends : calls[s1].idx = calls[s2].idx => s1 = s2
     /\ \A s \in sends : ~calls[s].ok => s = Len(calls) /\ Done
     /\ \A f \in fetches :
          ~calls[f].ok => f = Len(calls) /\ Done /\ sends = {} /\ err # NoErr

\* Witness for C11: the blockhash request of a batch of two or more envelopes
\* failed and the process has ended.
C11_Witness ==
  /\ BatchCommand /\ pc = "exited" /\ Len(b64_txs) >= 2
  /\ \E f \in OpsAt("GetLatestBlockhash") : ~calls[f].ok

\* C12 (as claimed): the configuration file read is the one --config names
\* when the flag is given, and ./config.yaml otherwise.
C12_ConfigFlagHonoured ==
  configRead # "" =>
    configRead = (IF cfgFile # "" THEN cfgFile ELSE "./config.yaml")


AssemblerOps ==
  LET own == {k \in CallIdx : calls[k].op \notin {"ReadFile", "rpc.New"}}
      first == Len(calls) - Cardinality(own)
  IN [i \in 1..Cardinality(own) |-> calls[first + i].op]

\* C14: CreateSignAndSendTransaction fetches a blockhash, constructs the
\* transaction with the client's public key as fee payer, signs, submits, in
\* that order; when the fetch or the construction fails the error is
\* returned and nothing is signed or submitted.
C14_CreateSignSendOrder ==
  command = LibraryCall =>
    LET steps == <<"GetLatestBlockhash", "NewTransaction", "Sign", "SendTransaction">>
    IN /\ Len(AssemblerOps) <= 4
       /\ \A i \in 1..Len(AssemblerOps) : AssemblerOps[i] = steps[i]
       /\ \A k \in CallIdx :
            /\ calls[k].op \in {"GetLatestBlockhash", "NewTransaction"} /\ ~calls[k].ok =>
                 /\ k = Len(calls)
                 /\ pc = "returned"
                 /\ err = (IF calls[k].op = "NewTransaction"
                             THEN "failed to create transaction"
                             ELSE "failed to get recent blockhash")
            /\ calls[k].op \in {"NewTransaction", "Sign", "SendTransaction"} /\ calls[k].ok =>
                 /\ Len(calls[k].tx.keys) >= 1
                 /\ calls[k].tx.keys[1] = client.PublicKey
                 /\ calls[k].tx.blockhash = "fresh"

\* Witness for C14: all four steps were taken and the call returned nil.
C14_Witness ==
  /\ command = LibraryCall /\ pc = "returned" /\ err = NoErr
  /\ AssemblerOps = <<"GetLatestBlockhash", "NewTransaction", "Sign", "SendTransaction">>
  /\ client.PublicKey = WalletKey


\* An envelope string that does not decode or does not parse.
Malformed(e) ==
  ~DecodeString(e).ok \/ ~TransactionFromDecoder(DecodeString(e).bytes).ok

DecodeErrors == {"failed to decode transaction", "failed to deserialize transaction"}

\* C15: envelopes are decoded one per loop pass.  When HandleB64Transactions
\* ends on an envelope i that is not base64 or does not parse, envelope i and
\* the later ones are neither signed nor submitted, while every envelope
\* before i has been signed and submitted; i is the first malformed one.
C15_LazyDecode ==
  (BatchCommand /\ Done /\ err \in DecodeErrors) =>
    /\ idx \in 1..Len(b64_txs)
    /\ Malformed(b64_txs[idx])
    /\ \A j \in 1..(idx - 1) : ~Malformed(b64_txs[j])
    /\ \A j \in 1..(idx - 1) :
         /\ \E s \in OpsAt("SendTransaction") : calls[s].idx = j /\ calls[s].ok
         /\ \E g \in OpsAt("Sign") : calls[g].idx = j
    /\ \A k \in CallIdx :
         calls[k].op \in {"Sign", "SendTransaction"} => calls[k].idx < idx

\* Witness for C15: the third envelope is not base64; the two before it went
\* through and the command ended with the decode error.
C15_Witness ==
  /\ BatchCommand /\ pc = "exited" /\ err = "failed to decode transaction"
  /\ Len(b64_txs) = 3 /\ b64_txs[3] = "!!"
  /\ Cardinality({s \in OpsAt("SendTransaction") : calls[s].ok}) = 2


\* C16: deposit, withdraw and account go past the status check only on status
\* 200.  Any other answer, other 2xx codes included, ends the command with
\* "unexpected status code": no body is decoded, no envelope reaches the
\* batch handler and no RPC call is made.
C16_Only200Accepted ==
  command \in {"deposit", "withdraw", "account"} =>
    /\ (resp.received /\ resp.transportOk /\ resp.status # 200) =>
         /\ Done
         /\ err = "unexpected status code"
         /\ response = <<>> /\ b64_txs = <<>>
         /\ \A k \in CallIdx : calls[k].op \notin (RpcOps \cup {"Sign"})
    /\ (pc \in {"HandleB64Transactions", "loop"} \/ response # <<>>
          \/ \E k \in CallIdx : calls[k].op \in RpcOps) =>
         resp.status = 200

\* Witness for C16: a 201 whose body lists envelopes ended the withdraw
\* command with the status error.
C16_Witness ==
  /\ command = "withdraw" /\ resp.received /\ resp.status = 201 /\ resp.bodyOk
  /\ pc = "exited" /\ err = "unexpected status code" /\ exitCode = 1


\* The pre-run validation of withdraw has been evaluated.
PreRunERan ==
  /\ command = "withdraw"
  /\ pc \notin {"start", "PreRunE"}
  /\ \E k \in CallIdx : calls[k].op = "ReadInConfig"

\* C17: the withdraw pre-run validation rejects exactly when --all is off and
\* the amount is zero, be it omitted or given as 0; a non-zero amount
\* together with --all is accepted, and the request then carries the amount
\* and withdrawAll = true.
C17_PreRunEIffZeroAndNotAll ==
  command = "withdraw" =>
    /\ PreRunERan =>
         ((err = "either --amount or --all flag must be specified")
            <=> (~withdrawAll /\ amount \in {"unset", "0"}))
    /\ request.sent =>
         /\ request.WithdrawAll = withdrawAll
         /\ request.Amount = (IF amount = "5" THEN 5 ELSE 0)
         /\ request.Owner = client.PublicKey

\* Witness for C17: --amount 5 together with --all went out as a request.
C17_Witness ==
  /\ command = "withdraw" /\ amount = "5" /\ withdrawAll
  /\ request.sent /\ request.WithdrawAll /\ request.Amount = 5
  /\ client.PublicKey = WalletKey

====
